---- MODULE Spec2Model ----
(***************************************************************************)
(* Model of the heuristic velocity controller OmniMPC                      *)
(* (utama_core/motion_planning/src/mpc_cpp/src/OmniMPC.{hpp,cpp}).         *)
(*                                                                         *)
(* Every `double` of the program is a fixed-point number: an integer       *)
(* counting units of 1/Scale.  Each arithmetic operation rounds its exact  *)
(* result to the nearest unit, as an IEEE operation rounds to the nearest  *)
(* double.  Vectors (Eigen::Vector2d) are pairs <<x, y>>.  The arguments   *)
(* are finite numbers, as the program's contract requires.                 *)
(***************************************************************************)
EXTENDS Integers, Sequences, FiniteSets, TLC

VARIABLES config,        \* OmniMPC::config of the controller
          config2,       \* config of a second controller given the same calls
          current_state, \* <<x, y, vx, vy>> argument of the last call
          goal_pos,      \* <<x, y>> argument of the last call
          obstacles,     \* sequence of <<x, y, vx, vy, radius>> of the last call
          result,        \* tuple returned by the last call: <<vx, vy, feasible>>
          result2,       \* tuple returned by the second controller
          locals,        \* locals of the last call: acc after the clamp, pushes
          tick,          \* number of calls made so far (saturates at MaxTicks)
          pc             \* "ready": arguments chosen, call pending; "done": returned

vars == <<config, config2, current_state, goal_pos, obstacles, result, result2,
          locals, tick, pc>>

(***************************************************************************)
(* Fixed-point arithmetic                                                  *)
(***************************************************************************)
Scale == 1000

Abs(a) == IF a < 0 THEN -a ELSE a

\* a / b rounded to the nearest integer, halves away from zero (b > 0)
RoundDiv(a, b) ==
    IF a >= 0 THEN (2 * a + b) \div (2 * b) ELSE -((2 * (-a) + b) \div (2 * b))

\* smallest integer >= a / b (a >= 0, b > 0)
CeilDiv(a, b) == (a + b - 1) \div b

\* product of two fixed-point numbers
Mul(a, b) == RoundDiv(a * b, Scale)

\* largest component for which x*x + y*y stays inside a machine integer
MaxSquarable == 32767

RECURSIVE SqrtSearch(_, _, _)
SqrtSearch(n, lo, hi) ==
    IF lo >= hi THEN lo
    ELSE LET mid == (lo + hi + 1) \div 2
         IN  IF mid * mid <= n THEN SqrtSearch(n, mid, hi)
                               ELSE SqrtSearch(n, lo, mid - 1)

\* std::sqrt of an integer, rounded to the nearest integer
SqrtRound(n) ==
    LET r == SqrtSearch(n, 0, 46340)
    IN  IF n - r * r > r THEN r + 1 ELSE r

VecAdd(a, b) == <<a[1] + b[1], a[2] + b[2]>>
VecSub(a, b) == <<a[1] - b[1], a[2] - b[2]>>
VecScale(a, s) == <<Mul(a[1], s), Mul(a[2], s)>>

\* Eigen norm(): sqrt(x^2 + y^2).  Components too large to square are halved
\* first (a double has relative, not absolute, precision).
RECURSIVE Norm(_)
Norm(v) ==
    IF Abs(v[1]) > MaxSquarable \/ Abs(v[2]) > MaxSquarable
    THEN 2 * Norm(<<RoundDiv(v[1], 2), RoundDiv(v[2], 2)>>)
    ELSE SqrtRound(v[1] * v[1] + v[2] * v[2])

\* v times the power of ten that brings it closest to MaxSquarable: the
\* direction of a short vector is kept with the relative precision of a double
RECURSIVE Upscaled(_)
Upscaled(v) ==
    IF 10 * Abs(v[1]) <= MaxSquarable /\ 10 * Abs(v[2]) <= MaxSquarable
    THEN Upscaled(<<10 * v[1], 10 * v[2]>>)
    ELSE v

\* Eigen normalized(): v / sqrt(z) when z = squaredNorm() > 0, else v itself
Normalized(v) ==
    IF v = <<0, 0>> THEN v
    ELSE LET w == Upscaled(v)
             n == Norm(w)
         IN  <<RoundDiv(w[1] * Scale, n), RoundDiv(w[2] * Scale, n)>>

(***************************************************************************)
(* MPCConfig.  DT, max_vel, max_accel, robot_radius, obstacle_buffer_ratio *)
(* and safety_vel_coeff are fixed-point; the reserved fields T, Q_pos,     *)
(* Q_vel, R_accel and Q_slack are kept in whole units (R_accel in halves). *)
(***************************************************************************)
DefaultConfig ==
    [T |-> 5, DT |-> 50, max_vel |-> 2000, max_accel |-> 3000,
     Q_pos |-> 200, Q_vel |-> 20, R_accel |-> 1, Q_slack |-> 5000000,
     robot_radius |-> 90, obstacle_buffer_ratio |-> 1250,
     safety_vel_coeff |-> 150]

\* literals of get_control_velocities
ArrivedDist == 400        \* 0.40
SettleDist == 150         \* 0.15
GainFar == 4              \* 4.0
GainArriving == 2         \* 2.0
PredictAhead == 100       \* 0.1
MinDistDenom == 100000    \* 1e-5 = 1 / MinDistDenom
SafetyMargin == 1200      \* 1.2
ForceBase == 50           \* 50.0
ViolationGain == 10       \* 10.0
ForceCapFactor == 2       \* 2.0

Pos(st) == <<st[1], st[2]>>     \* current_state.head<2>()
Vel(st) == <<st[3], st[4]>>     \* current_state.tail<2>()

\* 1. Distance Check
DistToGoal(st, goal) == Norm(VecSub(goal, Pos(st)))

\* mutant: the comparison with 0.40 is inverted
IsArriving_Inverted(st, goal) == DistToGoal(st, goal) > ArrivedDist

IsArriving(st, goal) == DistToGoal(st, goal) < ArrivedDist

\* 2. Calculate Target Velocity
RefVel(cfg, st, goal) ==
    IF IsArriving(st, goal) \/ DistToGoal(st, goal) < SettleDist
    THEN <<0, 0>>
    ELSE VecScale(Normalized(VecSub(goal, Pos(st))), cfg.max_vel)

\* 3. Error and Gain
Gain(st, goal) == IF IsArriving(st, goal) THEN GainArriving ELSE GainFar

TrackingAcc(cfg, st, goal) ==
    LET velocity_error == VecSub(RefVel(cfg, st, goal), Vel(st))
    IN  <<velocity_error[1] * Gain(st, goal), velocity_error[2] * Gain(st, goal)>>

(***************************************************************************)
(* 50.0 * std::exp(x) for a fixed-point x >= 0.  The value is a record:    *)
(* kind "fin" with the fixed-point value; kind "large" for a finite value  *)
(* beyond the fixed-point range kept here (x >= 1, so the value is at      *)
(* least 50e); kind "inf" when the double overflows.  For "large" and      *)
(* "inf" val is the lower bound 50e, above the force cap of every          *)
(* configuration of Configs.  std::exp of a finite argument never yields   *)
(* NaN, so no kind "nan" is produced; ClampForce still tests for it.       *)
(***************************************************************************)
ExpScale == 1000000
ExpOverflowArg == 705870   \* ln(DBL_MAX / 50) = 705.870...
LargeForce == 135914       \* 50 e

RECURSIVE ExpTerms(_, _, _)
ExpTerms(r, k, term) ==
    IF term = 0 THEN 0
    ELSE term + ExpTerms(r, k + 1, RoundDiv(term * r, Scale * (k + 1)))

ExpForce(x) ==
    IF x > ExpOverflowArg THEN [kind |-> "inf", val |-> LargeForce]
    ELSE IF x >= Scale THEN [kind |-> "large", val |-> LargeForce]
    ELSE [kind |-> "fin",
          val |-> RoundDiv(ForceBase * ExpTerms(x, 0, ExpScale), ExpScale \div Scale)]

\* mutant: the "force_mag > max_allowed_force" test is forgotten
ClampForce_NoCap(cfg, f) ==
    IF f.kind = "inf" \/ f.kind = "nan" THEN cfg.max_accel * ForceCapFactor ELSE f.val

\* mutant: the comparison with max_allowed_force is inverted
ClampForce_Inverted(cfg, f) ==
    LET max_allowed_force == cfg.max_accel * ForceCapFactor
    IN  IF f.kind = "inf" \/ f.kind = "nan" \/ f.val < max_allowed_force
        THEN max_allowed_force
        ELSE f.val

\* CRASH FIX 2: Clamp the Force
ClampForce(cfg, f) ==
    LET max_allowed_force == cfg.max_accel * ForceCapFactor
    IN  IF f.kind = "inf" \/ f.kind = "nan" \/ f.val > max_allowed_force
        THEN max_allowed_force
        ELSE f.val

\* CRASH FIX 1: dist < 1e-5 replaces dist by 1e-5 and diff by (1, 0)
BelowMinDist(dist) == dist < CeilDiv(Scale, MinDistDenom)

\* mutant: no degeneracy guard
GuardedDiff_NoGuard(diff) == [dist |-> Norm(diff), diff |-> diff]

GuardedDiff(diff) ==
    IF BelowMinDist(Norm(diff))
    THEN [dist |-> RoundDiv(Scale, MinDistDenom), diff |-> <<Scale, 0>>]
    ELSE [dist |-> Norm(diff), diff |-> diff]

\* mutant: robot_radius + obstacle_buffer_ratio instead of their product
Safety_Sum(cfg, st, obs) ==
    cfg.robot_radius + cfg.obstacle_buffer_ratio + obs[5]
        + Mul(Norm(Vel(st)), cfg.safety_vel_coeff)

Safety(cfg, st, obs) ==
    Mul(cfg.robot_radius, cfg.obstacle_buffer_ratio) + obs[5]
        + Mul(Norm(Vel(st)), cfg.safety_vel_coeff)

\* one iteration of the loop over obstacles: what it adds to repulsion
ObstaclePush(cfg, st, obs) ==
    LET obs_future == VecAdd(<<obs[1], obs[2]>>, VecScale(<<obs[3], obs[4]>>, PredictAhead))
        raw        == VecSub(Pos(st), obs_future)
        g          == GuardedDiff(raw)
        limit      == Mul(Safety(cfg, st, obs), SafetyMargin)
    IN  IF g.dist < limit
        THEN LET violation == IF limit - g.dist > 0 THEN limit - g.dist ELSE 0
                 force_mag == ClampForce(cfg, ExpForce(violation * ViolationGain))
             IN  [triggered |-> TRUE, coincident |-> BelowMinDist(Norm(raw)),
                  violation |-> violation,
                  exp_kind |-> ExpForce(violation * ViolationGain).kind,
                  force_mag |-> force_mag,
                  push |-> VecScale(Normalized(g.diff), force_mag)]
        ELSE [triggered |-> FALSE, coincident |-> BelowMinDist(Norm(raw)),
              violation |-> 0, exp_kind |-> "none", force_mag |-> 0,
              push |-> <<0, 0>>]

Pushes(cfg, st, obss) == [i \in 1..Len(obss) |-> ObstaclePush(cfg, st, obss[i])]

\* 4. Dynamic Obstacle Avoidance: the accumulator after the loop
RECURSIVE Repulsion(_, _, _)
Repulsion(cfg, st, obss) ==
    IF obss = <<>> THEN <<0, 0>>
    ELSE VecAdd(Repulsion(cfg, st, SubSeq(obss, 1, Len(obss) - 1)),
                ObstaclePush(cfg, st, obss[Len(obss)]).push)

\* mutant: the acceleration clamp is missing
ClampAccel_NoClamp(cfg, acc) == acc

\* 5. Clamp Acceleration
ClampAccel(cfg, acc) ==
    IF Norm(acc) > cfg.max_accel
    THEN VecScale(Normalized(acc), cfg.max_accel)
    ELSE acc

\* mutant: integrates over the whole horizon T * DT
Integrate_Horizon(cfg, st, acc) == VecAdd(Vel(st), VecScale(acc, cfg.DT * cfg.T))

\* mutant: starts from head<2>() (the position) instead of tail<2>()
Integrate_FromPos(cfg, st, acc) == VecAdd(Pos(st), VecScale(acc, cfg.DT))

\* 6. Integrate
Integrate(cfg, st, acc) == VecAdd(Vel(st), VecScale(acc, cfg.DT))

\* mutant: the velocity clamp is missing
ClampVel_NoClamp(cfg, next_vel) == next_vel

\* 7. Clamp Velocity
ClampVel(cfg, next_vel) ==
    IF Norm(next_vel) > cfg.max_vel
    THEN VecScale(Normalized(next_vel), cfg.max_vel)
    ELSE next_vel

\* acc after "acc += repulsion" and the clamp of step 5
AppliedAcc(cfg, st, goal, obss) ==
    ClampAccel(cfg, VecAdd(TrackingAcc(cfg, st, goal), Repulsion(cfg, st, obss)))

\* OmniMPC::get_control_velocities
get_control_velocities(cfg, st, goal, obss) ==
    LET next_vel == ClampVel(cfg, Integrate(cfg, st, AppliedAcc(cfg, st, goal, obss)))
    IN  <<next_vel[1], next_vel[2], TRUE>>

\* the locals of a call that the properties read
CallLocals(cfg, st, goal, obss) ==
    [acc |-> AppliedAcc(cfg, st, goal, obss), pushes |-> Pushes(cfg, st, obss)]

(***************************************************************************)
(* Arguments of the calls                                                  *)
(***************************************************************************)
MaxObstacles == 2     \* longest obstacle list
MaxTicks == 3         \* closed loop: number of ticks followed

Configs ==
    {DefaultConfig,
     [DefaultConfig EXCEPT !.max_accel = 25000],
     [DefaultConfig EXCEPT !.max_accel = 30000, !.max_vel = 1000, !.DT = 100,
                           !.robot_radius = 80]}

\* configurations that differ from cfg in reserved fields only
ReservedVariants(cfg) ==
    {[cfg EXCEPT !.T = 20, !.Q_pos = 1],
     [cfg EXCEPT !.Q_vel = 0, !.R_accel = 7, !.Q_slack = 1],
     [cfg EXCEPT !.T = 0, !.Q_pos = 0, !.Q_vel = 300, !.R_accel = 0, !.Q_slack = 9]}

Positions == {<<0, 0>>, <<1000, 0>>}

\* the last two are faster than every max_vel of Configs
Velocities ==
    {<<0, 0>>, <<1200, -1600>>, <<-300, 400>>, <<0, 1950>>,
     <<3000, 0>>, <<-2000, 1500>>}

Goals == {<<5000, 0>>, <<0, 0>>, <<-3000, 4000>>, <<1000, -390>>}

Obstacles ==
    {<<300, 0, 0, 0, 100>>,        \* ahead of a robot at the origin, out of range at rest
     <<250, 0, 0, 0, 110>>,        \* just inside the range of a robot at rest at the origin
     <<0, 0, 0, 0, 100>>,          \* on a robot at the origin
     <<-100, 0, 1000, 0, 100>>,    \* reaches the origin in 0.1
     <<-150, -150, 0, 0, 200>>,    \* deep inside the range
     <<0, 200, 0, -500, 90>>,      \* approaching from the side
     <<1000, 10, 0, 0, 80000>>}    \* so large that the exponential overflows

RECURSIVE SeqsUpTo(_, _)
SeqsUpTo(S, n) ==
    IF n = 0 THEN {<<>>}
    ELSE LET shorter == SeqsUpTo(S, n - 1)
         IN  shorter \cup {Append(q, x) : q \in shorter, x \in S}

ObstacleLists == SeqsUpTo(Obstacles, MaxObstacles)

NoLocals == [acc |-> <<0, 0>>, pushes |-> <<>>]

(***************************************************************************)
(* Spec: one controller, one call with arbitrary arguments                 *)
(***************************************************************************)
Init ==
    /\ config \in Configs
    /\ config2 = config
    /\ current_state \in {<<p[1], p[2], v[1], v[2]>> : p \in Positions, v \in Velocities}
    /\ goal_pos \in Goals
    /\ obstacles \in ObstacleLists
    /\ result = <<0, 0, TRUE>>
    /\ result2 = <<0, 0, TRUE>>
    /\ locals = NoLocals
    /\ tick = 0
    /\ pc = "ready"

\* a call of get_control_velocities on each controller, with the same arguments
Call ==
    /\ pc = "ready"
    /\ result' = get_control_velocities(config, current_state, goal_pos, obstacles)
    /\ result2' = get_control_velocities(config2, current_state, goal_pos, obstacles)
    /\ locals' = CallLocals(config, current_state, goal_pos, obstacles)
    /\ tick' = IF tick < MaxTicks THEN tick + 1 ELSE tick
    /\ pc' = "done"
    /\ UNCHANGED <<config, config2, current_state, goal_pos, obstacles>>

Next == Call

Spec == Init /\ [][Next]_vars

(***************************************************************************)
(* SpecTwin: two controllers whose configurations differ in reserved       *)
(* fields only, given the same call                                        *)
(***************************************************************************)
TwinObstacles ==
    {<<250, 0, 0, 0, 110>>, <<0, 0, 0, 0, 100>>, <<-150, -150, 0, 0, 200>>}

InitTwin ==
    /\ config \in Configs
    /\ config2 \in ReservedVariants(config)
    /\ current_state \in {<<p[1], p[2], v[1], v[2]>> : p \in Positions, v \in Velocities}
    /\ goal_pos \in Goals
    /\ obstacles \in SeqsUpTo(TwinObstacles, MaxObstacles)
    /\ result = <<0, 0, TRUE>>
    /\ result2 = <<0, 0, TRUE>>
    /\ locals = NoLocals
    /\ tick = 0
    /\ pc = "ready"

SpecTwin == InitTwin /\ [][Next]_vars

(***************************************************************************)
(* SpecLoop: the caller feeds each returned velocity back as the velocity  *)
(* of the next state; position, goal and obstacles change freely           *)
(***************************************************************************)
\* <<position, goal, obstacles>> of a tick
LoopScenes ==
    {<< <<0, 0>>, <<5000, 0>>, <<>> >>,
     << <<0, 0>>, <<5000, 0>>, << <<250, 0, 0, 0, 110>> >> >>,
     << <<0, 0>>, <<-3000, 4000>>, << <<0, 0, 0, 0, 100>>, <<-150, -150, 0, 0, 200>> >> >>,
     << <<1000, 0>>, <<1000, 0>>, <<>> >>,
     << <<0, 0>>, <<0, 0>>, <<>> >>,
     << <<1000, 0>>, <<1000, -390>>, <<>> >>,
     << <<0, 0>>, <<0, -5000>>, << <<0, 200, 0, -500, 90>> >> >>,
     << <<1000, 0>>, <<5000, 0>>, << <<1000, 10, 0, 0, 80000>>, <<1000, 0, 0, 0, 50>> >> >>}

InitLoop ==
    /\ config \in Configs
    /\ config2 = config
    /\ \E sc \in LoopScenes :
          /\ \E v \in Velocities :
                /\ Norm(v) <= config.max_vel
                /\ current_state = <<sc[1][1], sc[1][2], v[1], v[2]>>
          /\ goal_pos = sc[2]
          /\ obstacles = sc[3]
    /\ result = <<0, 0, TRUE>>
    /\ result2 = <<0, 0, TRUE>>
    /\ locals = NoLocals
    /\ tick = 0
    /\ pc = "ready"

\* the caller builds the next tick's arguments around the returned velocity
Feedback ==
    /\ pc = "done"
    /\ tick < MaxTicks
    /\ \E sc \in LoopScenes :
          /\ current_state' = <<sc[1][1], sc[1][2], result[1], result[2]>>
          /\ goal_pos' = sc[2]
          /\ obstacles' = sc[3]
    /\ pc' = "ready"
    /\ UNCHANGED <<config, config2, result, result2, locals, tick>>

NextLoop == Call \/ Feedback

SpecLoop == InitLoop /\ [][NextLoop]_vars

(***************************************************************************)
(* SpecCruise: empty obstacle list, robot far from a fixed goal, starting  *)
(* at rest; every returned velocity is fed back, tick after tick           *)
(***************************************************************************)
CruiseGoals ==
    {<<5000, 0>>, <<-3000, 4000>>, <<0, -400>>, <<1000, 2000>>, <<-2000, -700>>, <<300, 300>>}

InitCruise ==
    /\ config \in Configs
    /\ config2 = config
    /\ \E p \in Positions : current_state = <<p[1], p[2], 0, 0>>
    /\ goal_pos \in CruiseGoals
    /\ DistToGoal(current_state, goal_pos) >= ArrivedDist
    /\ obstacles = <<>>
    /\ result = <<0, 0, TRUE>>
    /\ result2 = <<0, 0, TRUE>>
    /\ locals = NoLocals
    /\ tick = 0
    /\ pc = "ready"

\* the next tick: same position, goal and (empty) obstacle list
FeedbackCruise ==
    /\ pc = "done"
    /\ current_state' = <<current_state[1], current_state[2], result[1], result[2]>>
    /\ pc' = "ready"
    /\ UNCHANGED <<config, config2, goal_pos, obstacles, result, result2, locals, tick>>

NextCruise == Call \/ FeedbackCruise

SpecCruise == InitCruise /\ [][NextCruise]_vars

\* In SpecCruise the steps that take pc from "ready" to "done" are exactly the
\* Call steps, and those that take it back are exactly the FeedbackCruise steps.
Returns == pc = "ready" /\ pc' = "done"
FedBack == pc = "done" /\ pc' = "ready"

\* the control loop keeps ticking: every pending call returns and every
\* result is fed back (weak fairness of Call and of FeedbackCruise, stated on
\* their pc steps)
FairCruise == SpecCruise /\ WF_pc(Returns) /\ WF_pc(FedBack)

(***************************************************************************)
(* Reading the state                                                       *)
(***************************************************************************)
OutVel == <<result[1], result[2]>>
InVel == Vel(current_state)
SqNorm(v) == v[1] * v[1] + v[2] * v[2]

\* |v| <= r: decided exactly where the squares fit a machine integer
Within(v, r) ==
    IF Abs(v[1]) <= MaxSquarable /\ Abs(v[2]) <= MaxSquarable /\ Abs(r) <= MaxSquarable
    THEN r >= 0 /\ SqNorm(v) <= r * r
    ELSE Norm(v) <= r

\* rounding of normalized() * m: each component of the unit vector is off by
\* at most half a unit, which m magnifies; the product rounds once more
Slack(m) == CeilDiv(m, Scale) + 1

\* rounding of the velocity change: that of acc, scaled by DT, the rounding of
\* acc * dt, and that of the velocity clamp
StepSlack(cfg) == Mul(Slack(cfg.max_accel), cfg.DT) + 1 + Slack(cfg.max_vel)

SpeedOk(cfg, v) == Within(v, cfg.max_vel + Slack(cfg.max_vel))
AccOk(cfg, a) == Within(a, cfg.max_accel + Slack(cfg.max_accel))
StepOk(cfg, v0, v1) == Within(VecSub(v1, v0), Mul(cfg.max_accel, cfg.DT) + StepSlack(cfg))

PushIndices == 1..Len(locals.pushes)

\* C1: the returned velocity has magnitude at most max_vel (up to rounding),
\* whatever the arguments, a state velocity above max_vel included.
C1_VelocityBounded == pc = "done" => SpeedOk(config, OutVel)

\* C1 witness: a call whose state velocity is above max_vel, clamped to max_vel
C1_Witness ==
    /\ pc = "done"
    /\ ~Within(InVel, config.max_vel)
    /\ ~Within(OutVel, config.max_vel - Slack(config.max_vel))
    /\ SpeedOk(config, OutVel)

\* C2 as stated: for every input the velocity change of a call is at most
\* max_accel * DT, i.e. (output velocity - state velocity) / DT is at most
\* max_accel (up to rounding).
C2_Original == pc = "done" => StepOk(config, InVel, OutVel)

\* C2 amended: when the state velocity has magnitude at most max_vel, the
\* velocity change of a call is at most max_accel * DT (up to rounding).
C2_AccelBounded ==
    (pc = "done" /\ Within(InVel, config.max_vel)) => StepOk(config, InVel, OutVel)

\* C2 witness: a state velocity within max_vel, the acceleration clamp and the
\* velocity clamp both active (the result is on the max_vel circle and moved)
C2_Witness ==
    /\ pc = "done"
    /\ Within(InVel, config.max_vel)
    /\ ~Within(locals.acc, config.max_accel - Slack(config.max_accel))
    /\ ~Within(OutVel, config.max_vel - Slack(config.max_vel))
    /\ OutVel # InVel
    /\ StepOk(config, InVel, OutVel)

C3_Case ==
    /\ pc = "done"
    /\ config = DefaultConfig
    /\ current_state = <<0, 0, 0, 0>>
    /\ goal_pos = <<5000, 0>>
    /\ obstacles = << <<300, 0, 0, 0, 100>> >>

\* C3 as stated: in the case state=(0,0,0,0), goal=(5,0), one obstacle
\* [0.3,0,0,0,0.1], default configuration, the result is within the limits
\* and its vy is non-zero.
C3_Original ==
    C3_Case => /\ SpeedOk(config, OutVel)
               /\ StepOk(config, InVel, OutVel)
               /\ result[2] # 0

\* C3 amended: in that case the obstacle is out of range (0.3 >= 1.2 * safety
\* = 0.255), nothing is added to repulsion, and the result is the one of the
\* empty obstacle list: (max_accel * DT, 0, true) = (0.15, 0, true), vy = 0.
C3_NotDeflected ==
    C3_Case => /\ ~locals.pushes[1].triggered
               /\ result = <<150, 0, TRUE>>
               /\ result = get_control_velocities(config, current_state, goal_pos, <<>>)
               /\ SpeedOk(config, OutVel)
               /\ StepOk(config, InVel, OutVel)

C3_Witness == C3_Case /\ result[1] > 0 /\ result[3]

\* C4: an obstacle whose extrapolated position coincides with the robot's
\* position pushes along (1, 0) with the clamped force, and the result stays
\* within max_vel and max_accel, for any number of such obstacles.
C4_CoincidentGuarded ==
    (pc = "done" /\ \E i \in PushIndices : locals.pushes[i].coincident) =>
        /\ \A i \in PushIndices :
              locals.pushes[i].coincident =>
                  /\ locals.pushes[i].triggered
                  /\ locals.pushes[i].force_mag > 0
                  /\ locals.pushes[i].push = <<locals.pushes[i].force_mag, 0>>
        /\ SpeedOk(config, OutVel)
        /\ AccOk(config, locals.acc)
        /\ Within(InVel, config.max_vel) => StepOk(config, InVel, OutVel)

\* C4 witness: two coincident obstacles in one call, one of them coincident
\* only after extrapolation
C4_Witness ==
    /\ pc = "done"
    /\ Len(obstacles) >= 2
    /\ \A i \in PushIndices : locals.pushes[i].coincident
    /\ \E i \in PushIndices : <<obstacles[i][1], obstacles[i][2]>> # Pos(current_state)
    /\ \E i \in PushIndices : <<obstacles[i][1], obstacles[i][2]>> = Pos(current_state)

\* C5: every obstacle that triggers repulsion adds a force of magnitude at
\* most 2 * max_accel, also when the exponential overflows.
C5_ForceBounded ==
    pc = "done" =>
        \A i \in PushIndices :
            locals.pushes[i].triggered =>
                /\ locals.pushes[i].force_mag <= ForceCapFactor * config.max_accel
                /\ Within(locals.pushes[i].push,
                          ForceCapFactor * config.max_accel
                              + Slack(ForceCapFactor * config.max_accel))

\* C5 witness: a call in which the exponential overflowed to infinity
C5_Witness ==
    /\ pc = "done"
    /\ \E i \in PushIndices :
          /\ locals.pushes[i].exp_kind = "inf"
          /\ locals.pushes[i].force_mag = ForceCapFactor * config.max_accel

\* C10: with max_accel at most 25, every obstacle that triggers repulsion adds
\* a force of magnitude exactly 2 * max_accel, whatever its violation.
C10_Saturated ==
    (pc = "done" /\ config.max_accel <= 25 * Scale) =>
        \A i \in PushIndices :
            locals.pushes[i].triggered =>
                locals.pushes[i].force_mag = ForceCapFactor * config.max_accel

\* C10 witness: max_accel = 25 and a shallow violation, where the unclamped
\* force is nearest to the cap
C10_Witness ==
    /\ pc = "done"
    /\ config.max_accel = 25 * Scale
    /\ \E i \in PushIndices :
          /\ locals.pushes[i].triggered
          /\ locals.pushes[i].exp_kind = "fin"
          /\ locals.pushes[i].violation < 20

\* C8: two controllers whose configurations differ only in T, Q_pos, Q_vel,
\* R_accel and Q_slack return the same tuple for the same arguments.
C8_ReservedIgnored == pc = "done" => result2 = result

\* C8 witness: configurations that differ, a call that returned a velocity
C8_Witness ==
    /\ pc = "done"
    /\ config2 # config
    /\ [config2 EXCEPT !.T = 0, !.Q_pos = 0, !.Q_vel = 0, !.R_accel = 0, !.Q_slack = 0]
         = [config EXCEPT !.T = 0, !.Q_pos = 0, !.Q_vel = 0, !.R_accel = 0, !.Q_slack = 0]
    /\ OutVel # <<0, 0>>
    /\ obstacles # <<>>

\* C9: in the closed loop, started with a velocity within max_vel, every tick
\* returns a speed of at most max_vel and changes the velocity by at most
\* max_accel * DT (up to rounding).
C9_ClosedLoop ==
    pc = "done" => /\ SpeedOk(config, OutVel)
                   /\ StepOk(config, InVel, OutVel)

\* C9 witness: a later tick with obstacles, both clamps active
C9_Witness ==
    /\ pc = "done"
    /\ tick >= 2
    /\ obstacles # <<>>
    /\ ~Within(locals.acc, config.max_accel - Slack(config.max_accel))
    /\ ~Within(OutVel, config.max_vel - Slack(config.max_vel))
    /\ OutVel # InVel

AtRestAtGoal ==
    /\ Pos(current_state) = goal_pos
    /\ InVel = <<0, 0>>
    /\ obstacles = <<>>

\* C7: at the goal, at rest, without obstacles, the call returns (0, 0, true),
\* on the first tick and on every later tick that feeds the result back.
C7_RestAtGoal == (pc = "done" /\ AtRestAtGoal) => result = <<0, 0, TRUE>>

\* C7 witness: a later tick at a goal other than the origin, fed from a result
C7_Witness ==
    /\ pc = "done"
    /\ tick >= 2
    /\ AtRestAtGoal
    /\ goal_pos # <<0, 0>>
    /\ result = <<0, 0, TRUE>>

GoalDir == Normalized(VecSub(goal_pos, Pos(current_state)))

Cross(v, u) == v[1] * u[2] - v[2] * u[1]
Dot(v, u) == v[1] * u[1] + v[2] * u[2]

\* v points along the unit vector u: forward, and off the line by at most tol
Along(v, u, tol) == Dot(v, u) > 0 /\ Abs(Cross(v, u)) <= tol * Scale

\* the gap to max_vel below which the increment gain * gap * DT rounds to zero
StallGap(cfg) == CeilDiv(Scale, 2 * GainFar * cfg.DT)

CruiseDirected == pc = "done" => Along(OutVel, GoalDir, Slack(config.max_vel))

AtMaxVel == pc = "done" /\ SqNorm(OutVel) = config.max_vel * config.max_vel

NearMaxVel ==
    pc = "done" =>
        /\ SpeedOk(config, OutVel)
        /\ ~Within(OutVel, config.max_vel - StallGap(config) - Slack(config.max_vel) - 1)

\* C6 as stated: cruising towards a far goal from rest, every returned
\* velocity points along the unit vector to the goal, and after finitely
\* many ticks its magnitude equals max_vel.
C6_Original == [] CruiseDirected /\ <> AtMaxVel

\* C6 amended: every returned velocity points along the unit vector to the
\* goal, and after finitely many ticks its magnitude stays within rounding
\* of max_vel; it approaches max_vel from below and need not reach it.
C6_CruiseConverges == [] CruiseDirected /\ <>[] NearMaxVel

\* C6 witness: a tick whose velocity was fed back, pointing to a goal off the
\* axes, within rounding of max_vel and not equal to it
C6_Witness ==
    /\ pc = "done"
    /\ InVel # <<0, 0>>
    /\ goal_pos[1] # current_state[1]
    /\ goal_pos[2] # current_state[2]
    /\ Along(OutVel, GoalDir, Slack(config.max_vel))
    /\ ~Within(OutVel, config.max_vel - StallGap(config) - Slack(config.max_vel) - 1)
    /\ SqNorm(OutVel) # config.max_vel * config.max_vel
    /\ OutVel = InVel

====
